---- MODULE Spec2Model ----
(***************************************************************************)
(* A model of src/src/server.ts: the MCP server "mcp-eth" with its two     *)
(* tools, generate_address and sign_transaction, the helper validateHex    *)
(* and the startup in main().                                              *)
(*                                                                         *)
(* The handlers delegate to @scure/btc-signer, @scure/base and             *)
(* @noble/curves.  Each library call is an operator on the abstract values *)
(* below (the call site is the source place of the operator):              *)
(*   - a hex text is a sequence of characters followed, when `body` is     *)
(*     set, by the lowercase hex encoding of a PSBT container;             *)
(*   - a WIF text is what its base58 characters decode to;                 *)
(*   - a PSBT container is the sequence of the key-value pairs of its      *)
(*     maps, each map ended by a separator.                                *)
(* The PSBT engine behind fromPSBT, sign and toPSBT is not part of the     *)
(* source file; Parse, Sign and Serialize are written from the             *)
(* specification of the engine (Parse, Sign, Serialize of the PSBT         *)
(* Engine), and the handler is written from the source file.               *)
(* An optional value is a sequence of length 0 or 1.                       *)
(***************************************************************************)
EXTENDS Integers, Sequences, FiniteSets, TLC

\* ------------------------------------------------------------------ bounds

\* The longest literal hex text (in characters) given as psbtHex or hexStr.
MaxHexLen == 2
\* The most inputs of a PSBT.
MaxInputs == 2
\* The invocations served concurrently in ConcSpec.
NumCalls == 2

\* ------------------------------------------------------------- value sets

\* Characters of a text: a decimal digit, a lowercase and an uppercase hex
\* letter, and a letter that is no hex digit.
Alphabet == {"0", "a", "F", "g"}

LowerHexChars == {"0", "1", "2", "3", "4", "5", "6", "7", "8", "9",
                  "a", "b", "c", "d", "e", "f"}
UpperHexChars == {"A", "B", "C", "D", "E", "F"}

RECURSIVE SeqsUpTo(_, _)
SeqsUpTo(S, n) ==
  IF n = 0 THEN {<<>>}
  ELSE LET shorter == SeqsUpTo(S, n - 1)
       IN  shorter \cup {Append(s, c) : s \in {t \in shorter : Len(t) = n - 1}, c \in S}

Texts == SeqsUpTo(Alphabet, MaxHexLen)

\* Private scalars: two valid ones and one outside [1, n-1].
ValidScalars == {"k1", "k2"}
Scalars == ValidScalars \cup {"zero"}

Pub(k) == <<"pub", k>>
Hash160(p) == <<"hash160", p>>

\* ------------------------------------------------------------ outcomes

Ok(v) == [thrown |-> FALSE, msg |-> "", val |-> <<v>>]
Throw(m) == [thrown |-> TRUE, msg |-> m, val |-> <<>>]

\* ------------------------------------------------------------ validateHex

\* /^[0-9a-f]*$/i.test(hexStr) on the characters of the text; the encoding
\* of a container adds hex digits only.
AllHex(hexStr) ==
  \A n \in 1..Len(hexStr.chars) :
      hexStr.chars[n] \in LowerHexChars \cup UpperHexChars

\* Bytes of an encoded container: the magic, then one byte per pair and
\* separator at the least.
ContainerBytes(b) == 5 + Len(b)

\* hexStr.length
TextLength(hexStr) ==
  Len(hexStr.chars)
    + (IF hexStr.body = <<>> THEN 0 ELSE 2 * ContainerBytes(hexStr.body[1]))

\* JavaScript's truthiness of the optional `length`: undefined and 0 are falsy.
Truthy(length) == length # <<>> /\ length[1] # 0

validateHexCaseSensitive(hexStr, length) ==
  IF TextLength(hexStr) % 2 # 0 THEN Throw("Hex must have even length")
  ELSE IF Truthy(length) /\ TextLength(hexStr) # length[1] * 2
       THEN Throw("Hex must be N chars long")
  ELSE IF ~(\A n \in 1..Len(hexStr.chars) : hexStr.chars[n] \in LowerHexChars)
       THEN Throw("Hex must contain only 0-9 and a-f")
  ELSE Ok("valid")

\* function validateHex(hexStr, length?): the typeof test never fires, every
\* text here is a string.
validateHex(hexStr, length) ==
  IF TextLength(hexStr) % 2 # 0 THEN Throw("Hex must have even length")
  ELSE IF Truthy(length) /\ TextLength(hexStr) # length[1] * 2
       THEN Throw("Hex must be N chars long")
  ELSE IF ~AllHex(hexStr) THEN Throw("Hex must contain only 0-9 and a-f")
  ELSE Ok("valid")

\* ------------------------------------------------------------ networks, WIF

NETWORK == [wif |-> "80", bech32 |-> "bc"]
TEST_NETWORK == [wif |-> "ef", bech32 |-> "tb"]

\* z.boolean().optional().default(false)
ZodTestnet(raw) == IF raw = <<>> THEN FALSE ELSE raw[1]

NetworkIgnoringFlag(testnet) == NETWORK

\* testnet ? btc.TEST_NETWORK : undefined, the library's default being NETWORK
NetworkOf(testnet) == IF testnet THEN TEST_NETWORK ELSE NETWORK

\* What the characters of a WIF text decode to: whether the base58-check
\* checksum matches, the version byte, whether the 0x01 compression flag
\* follows the key, and the key.
WifTexts ==
  {[checksum |-> TRUE, version |-> v, compressed |-> TRUE, key |-> k] :
      v \in {"80", "ef"}, k \in ValidScalars}
  \cup {[checksum |-> TRUE, version |-> "80", compressed |-> TRUE, key |-> "zero"],
        [checksum |-> TRUE, version |-> "80", compressed |-> FALSE, key |-> "k1"]}
  \cup {[checksum |-> FALSE, version |-> v, compressed |-> TRUE, key |-> "k1"] :
      v \in {"80", "ef"}}

\* btc.WIF(network).decode(wif)
WIFDecode(network, wif) ==
  IF ~wif.checksum THEN Throw("Invalid checksum")
  ELSE IF wif.version # network.wif THEN Throw("Wrong WIF prefix")
  ELSE IF ~wif.compressed THEN Throw("Wrong WIF length")
  ELSE Ok(wif.key)

\* secp256k1.getPublicKey(privateKeyBytes, true)
GetPublicKey(k) ==
  IF k \in ValidScalars THEN Ok(Pub(k)) ELSE Throw("invalid private key")

\* btc.p2wpkh(publicKey, network): the payment with its script and address.
P2wpkh(publicKey, network) ==
  [type |-> "wpkh",
   hash |-> Hash160(publicKey),
   address |-> <<[hrp |-> network.bech32, version |-> 0,
                  program |-> Hash160(publicKey)]>>]

\* ------------------------------------------------------------ PSBT containers

\* A key-value pair of a map: the key's type, the key's data and the value,
\* each a text or a sequence of texts.
Pair(type, data, val) == [type |-> type, data |-> data, val |-> val]

\* The byte that ends a map.
Separator == Pair("sep", "", <<>>)

\* The script an output pays to: its type and the key whose hash160 (taproot:
\* whose output key) it commits to.
ScriptOf(kind, k) == <<kind, k>>

\* P2WPKH(hash160(publicKey)): OP_0 <hash160>.
P2wpkhScript(publicKey) == ScriptOf("wpkh", publicKey[2])

\* The unsigned transaction of the global map: its id, its inputs and its
\* outputs.
UnsignedTx(txid, nIn, nOut) ==
  Pair("unsignedTx", "", <<txid>> \o [n \in 1..nIn |-> "in"]
                                 \o [n \in 1..nOut |-> "out"])

\* The spent output of an input, embedded as a witness UTXO or, for a legacy
\* output, as the full previous transaction.
Utxo(kind, k) ==
  Pair(IF kind = "pkh" THEN "nonWitnessUtxo" ELSE "witnessUtxo", "",
       ScriptOf(kind, k))

\* The BIP143 signature hash of an input: it commits to the transaction, the
\* spent script and value and the sighash type.
SigHash(txid, script, sighashType) == <<txid>> \o script \o <<sighashType>>

\* ECDSA with the RFC 6979 nonce, DER-encoded, the sighash-type byte appended:
\* a function of the key and the digest.
Ecdsa(privateKey, digest) == <<"ecdsa", privateKey>> \o digest

\* A signature some other signer software made with the same key.
ForeignSig(k) == <<"ecdsa", k, "other">>

PartialSig(k, sig) == Pair("partialSig", k, sig)

TheTxId == "tx1"

\* The input maps: P2WPKH inputs of either key, unsigned; of key k1 already
\* signed as this system signs, signed otherwise with the pairs in another
\* order, and with a sighash type of its own; a P2PKH and a taproot input;
\* and a map with one key twice.
InputMaps ==
  {<<Utxo("wpkh", k)>> : k \in ValidScalars}
  \cup {<<Utxo("wpkh", "k1"),
          PartialSig("k1", Ecdsa("k1", SigHash(TheTxId, ScriptOf("wpkh", "k1"), "ALL")))>>,
        <<PartialSig("k1", ForeignSig("k1")), Utxo("wpkh", "k1")>>,
        <<Utxo("wpkh", "k1"), Pair("sighashType", "", <<"SINGLE">>)>>,
        <<Utxo("pkh", "k1")>>,
        <<Utxo("tr", "k1")>>,
        <<Utxo("wpkh", "k2"), Utxo("wpkh", "k2")>>}

\* The global maps after the unsigned transaction, and the output maps.
GlobalTails == {<<>>, <<Pair("version", "", <<"0">>)>>}
OutputMaps == {<<>>, <<Pair("redeemScript", "", <<"script">>)>>}

RECURSIVE Flatten(_)
\* The maps written one after the other, each ended by the separator.
Flatten(maps) ==
  IF maps = <<>> THEN <<>>
  ELSE maps[1] \o <<Separator>> \o Flatten(Tail(maps))

\* The bytes of a container: a global map, the input maps and one output map.
WireOf(tail, ins, out) ==
  Flatten(<<<<UnsignedTx(TheTxId, Len(ins), 1)>> \o tail>> \o ins \o <<out>>)

\* The containers: the complete ones, one cut short, one of a version this
\* system does not support.
Containers ==
  {WireOf(tail, ins, out) :
      tail \in GlobalTails, ins \in SeqsUpTo(InputMaps, MaxInputs),
      out \in OutputMaps}
  \cup {SubSeq(WireOf(<<>>, <<<<Utxo("wpkh", "k1")>>>>, <<>>), 1, 3),
        WireOf(<<Pair("version", "", <<"2">>)>>, <<<<Utxo("wpkh", "k1")>>>>, <<>>)}

\* A hex text: the characters `chars`, then the encoding of `body`.
HexOf(container) == [chars |-> <<>>, body |-> <<container>>]
LiteralHex(text) == [chars |-> text, body |-> <<>>]
HexTexts == {LiteralHex(t) : t \in Texts} \cup {HexOf(c) : c \in Containers}

RECURSIVE SplitMaps(_)
\* The maps of a sequence of pairs that ends with a separator: the pairs up
\* to each separator.
SplitMaps(tokens) ==
  IF tokens = <<>> THEN <<>>
  ELSE LET end == CHOOSE n \in 1..Len(tokens) :
                     /\ tokens[n] = Separator
                     /\ \A m \in 1..(n - 1) : tokens[m] # Separator
       IN  <<SubSeq(tokens, 1, end - 1)>>
             \o SplitMaps(SubSeq(tokens, end + 1, Len(tokens)))

\* The values a map holds under a key type.
ValuesOf(map, type) == {map[n].val : n \in {m \in 1..Len(map) : map[m].type = type}}

HasDuplicateKey(map) ==
  \E n, m \in 1..Len(map) :
     n # m /\ map[n].type = map[m].type /\ map[n].data = map[m].data

CountOf(seq, x) == Cardinality({n \in 1..Len(seq) : seq[n] = x})

\* Parse: the global map, the input maps and the output maps of the bytes;
\* fails on truncated data, on a key twice in one map and on an unsupported
\* global version.
Parse(tokens) ==
  IF tokens = <<>> \/ tokens[Len(tokens)] # Separator
  THEN Throw("MalformedContainer")
  ELSE LET maps == SplitMaps(tokens)
           txs  == ValuesOf(maps[1], "unsignedTx")
       IN  IF Cardinality(txs) # 1 THEN Throw("MalformedContainer")
           ELSE LET unsignedTx == CHOOSE v \in txs : TRUE
                    nIn  == CountOf(unsignedTx, "in")
                    nOut == CountOf(unsignedTx, "out")
                IN  IF \/ Len(maps) # 1 + nIn + nOut
                       \/ \E n \in 1..Len(maps) : HasDuplicateKey(maps[n])
                       \/ ValuesOf(maps[1], "version") \ {<<"0">>} # {}
                    THEN Throw("MalformedContainer")
                    ELSE Ok([global |-> maps[1],
                             ins    |-> SubSeq(maps, 2, 1 + nIn),
                             outs   |-> SubSeq(maps, 2 + nIn, Len(maps))])

\* btc.Transaction.fromPSBT(hex.decode(psbtHex)).  The literal texts are too
\* short to hold the magic bytes, and a text with characters before the
\* container does not start with them.
FromPSBT(psbtHex) ==
  IF psbtHex.body = <<>> \/ psbtHex.chars # <<>> THEN Throw("MalformedContainer")
  ELSE Parse(psbtHex.body[1])

\* Serialize: the maps re-encoded in the order they are held in.
Serialize(tx) == Flatten(<<tx.global>> \o tx.ins \o tx.outs)

\* hex.encode(tx.toPSBT())
ToPSBTHex(tx) == HexOf(Serialize(tx))

\* The script of the output an input spends, from its witness UTXO or its
\* previous transaction.
SpentScripts(input) ==
  ValuesOf(input, "witnessUtxo") \cup ValuesOf(input, "nonWitnessUtxo")

\* The sighash type of an input: SIGHASH_ALL unless the entry specifies one.
SighashTypeOf(input) ==
  IF ValuesOf(input, "sighashType") = {} THEN "ALL"
  ELSE (CHOOSE v \in ValuesOf(input, "sighashType") : TRUE)[1]

TxIdOf(tx) == (CHOOSE v \in ValuesOf(tx.global, "unsignedTx") : TRUE)[1]

\* The partial signatures an input holds under a public key.
SigsUnder(input, publicKey) ==
  {n \in 1..Len(input) :
      input[n].type = "partialSig" /\ input[n].data = publicKey[2]}

MergePartialSigAppend(input, entry) == Append(input, entry)

\* The partial-signature record inserted under the public key; an existing
\* one for the same public key is not overwritten.
MergePartialSig(input, entry) ==
  IF \E n \in 1..Len(input) :
        input[n].type = entry.type /\ input[n].data = entry.data
  THEN input
  ELSE Append(input, entry)

SignIdxAnyInput(tx, n, privateKey, publicKey) ==
  LET input  == tx.ins[n]
      script == IF SpentScripts(input) = {} THEN P2wpkhScript(publicKey)
                ELSE CHOOSE s \in SpentScripts(input) : TRUE
  IN  Ok(MergePartialSig(input,
           PartialSig(publicKey[2],
             Ecdsa(privateKey, SigHash(TxIdOf(tx), script, SighashTypeOf(input))))))

\* Sign, one input: if the spent script is the P2WPKH program of the public
\* key, the input with the signature over its BIP143 hash inserted; any other
\* input is not signed.
SignIdx(tx, n, privateKey, publicKey) ==
  LET input == tx.ins[n]
  IN  IF SpentScripts(input) # {P2wpkhScript(publicKey)}
      THEN Throw("no match")
      ELSE Ok(MergePartialSig(input,
                PartialSig(publicKey[2],
                  Ecdsa(privateKey, SigHash(TxIdOf(tx), P2wpkhScript(publicKey),
                                            SighashTypeOf(input))))))

\* The inputs Sign counts as signed.
SignedIdxs(tx, privateKey, publicKey) ==
  {n \in 1..Len(tx.ins) : ~SignIdx(tx, n, privateKey, publicKey).thrown}

\* Sign (tx.sign(privateKeyBytes)): the public key derived, every input
\* scanned, the signed ones counted; fails when the count is zero.
Sign(tx, privateKey) ==
  LET pk == GetPublicKey(privateKey)
  IN  IF pk.thrown THEN Throw(pk.msg)
      ELSE IF SignedIdxs(tx, privateKey, pk.val[1]) = {}
           THEN Throw("No inputs signed")
      ELSE Ok([tx EXCEPT !.ins = [n \in 1..Len(tx.ins) |->
                 IF n \in SignedIdxs(tx, privateKey, pk.val[1])
                 THEN SignIdx(tx, n, privateKey, pk.val[1]).val[1]
                 ELSE tx.ins[n]]])

SignAndFinalize(tx, privateKey) ==
  LET s == Sign(tx, privateKey)
  IN  IF s.thrown THEN s
      ELSE Ok([s.val[1] EXCEPT !.ins = [n \in 1..Len(s.val[1].ins) |->
                 IF SigsUnder(s.val[1].ins[n], Pub(privateKey)) # {}
                 THEN Append(s.val[1].ins[n],
                             Pair("finalScriptWitness", "", <<"witness">>))
                 ELSE s.val[1].ins[n]]])

SignStepSwallowing(tx, privateKey) ==
  LET s == Sign(tx, privateKey)
  IN  IF s.thrown THEN Ok(tx) ELSE s

\* tx.sign(privateKeyBytes) and nothing more: "No finalization, as other
\* signers might be needed".
SignStep(tx, privateKey) == Sign(tx, privateKey)

\* ------------------------------------------------------------ the tools

\* The optional testnet argument as the client sends it.
TestnetArgs == {<<>>, <<FALSE>>, <<TRUE>>}

NoHex == LiteralHex(<<>>)

GenerateArgs ==
  {[tool |-> "generate_address", psbtHex |-> NoHex, privateKeyWif |-> w,
    testnet |-> t] : w \in WifTexts, t \in TestnetArgs}

SignArgs ==
  {[tool |-> "sign_transaction", psbtHex |-> h, privateKeyWif |-> w,
    testnet |-> t] : h \in HexTexts, w \in WifTexts, t \in TestnetArgs}

AllArgs == GenerateArgs \cup SignArgs

MainWif(k) == [checksum |-> TRUE, version |-> "80", compressed |-> TRUE, key |-> k]
TestWif(k) == [checksum |-> TRUE, version |-> "ef", compressed |-> TRUE, key |-> k]

InputOf(t, k) == <<Utxo(t, k)>>

ContainerOf(ins) == WireOf(<<>>, ins, <<>>)

\* The arguments of the invocations served side by side.
SmallArgs ==
  {[tool |-> "generate_address", psbtHex |-> NoHex, privateKeyWif |-> w,
    testnet |-> t] : w \in {MainWif("k1")}, t \in {<<>>, <<TRUE>>}}
  \cup
  {[tool |-> "sign_transaction", psbtHex |-> h, privateKeyWif |-> MainWif(k),
    testnet |-> <<>>] :
      h \in {LiteralHex(<<"g">>), HexOf(ContainerOf(<<InputOf("tr", "k1")>>)),
             HexOf(ContainerOf(<<InputOf("wpkh", "k1"), InputOf("wpkh", "k2")>>))},
      k \in ValidScalars}

\* The calls of a handler in the order of its body.
FirstCall(tool) ==
  IF tool = "sign_transaction" THEN "validateHex" ELSE "WIF.decode"

CallAfter(tool, call) ==
  IF tool = "sign_transaction"
  THEN CASE call = "validateHex" -> "WIF.decode"
         [] call = "WIF.decode" -> "fromPSBT"
         [] call = "fromPSBT" -> "sign"
         [] call = "sign" -> "toPSBT"
         [] OTHER -> "done"
  ELSE CASE call = "WIF.decode" -> "getPublicKey"
         [] call = "getPublicKey" -> "p2wpkh"
         [] OTHER -> "done"

InTryAfterValidateHex(tool, call) == call # "validateHex"

\* Whether a call lies in the handler's try block: every call of both does.
InTry(tool, call) == TRUE

ErrorPrefix(tool) ==
  IF tool = "sign_transaction" THEN "Error signing transaction: "
  ELSE "Error generating address: "

ErrorResultWithInput(a, msg) ==
  [isError |-> TRUE,
   text |-> [prefix |-> ErrorPrefix(a.tool), message |-> <<msg>>,
             address |-> <<>>,
             psbt |-> IF a.tool = "sign_transaction" THEN <<a.psbtHex>> ELSE <<>>]]

\* The catch block of a handler: the error's message and nothing else.
ErrorResult(a, msg) ==
  [isError |-> TRUE,
   text |-> [prefix |-> ErrorPrefix(a.tool), message |-> <<msg>>,
             address |-> <<>>, psbt |-> <<>>]]

\* if (!address) return { isError: true, ... "Failed to generate address." }
NoAddressResult ==
  [isError |-> TRUE,
   text |-> [prefix |-> "Failed to generate address.", message |-> <<>>,
             address |-> <<>>, psbt |-> <<>>]]

AddressResult(address) ==
  [isError |-> FALSE,
   text |-> [prefix |-> "Generated Address: ", message |-> <<>>,
             address |-> <<address>>, psbt |-> <<>>]]

SignedResult(psbtHex) ==
  [isError |-> FALSE,
   text |-> [prefix |-> "Signed PSBT: ", message |-> <<>>,
             address |-> <<>>, psbt |-> <<psbtHex>>]]

\* The constants of one run of a handler, before any is bound.
NoLocals == [privateKeyBytes |-> <<>>, publicKey |-> <<>>, tx |-> <<>>]

FrameShared(i) == 1

\* The scope an invocation's constants live in: its own.
FrameOf(i) == i

\* ------------------------------------------------------------ state

VARIABLES
  proc,     \* "starting", "running" or "exited": the process
  pc,       \* per invocation: "idle", the next call of its handler, or "done"
  args,     \* per invocation: the arguments of its request
  local,    \* per scope: privateKeyBytes, publicKey and tx
  phase,    \* per invocation: "NONE", "PARSED", "SIGNED", "SERIALIZED"
  hist,     \* per invocation: the calls made so far
  threw,    \* per invocation: the call that threw, if one did
  result,   \* per invocation: the result returned, if any
  escaped,  \* per invocation: whether an error left the handler
  chain,    \* per invocation: the result whose PSBT was fed back in, if any
  probe     \* a call of validateHex on its own: hexStr, length and outcome

vars == <<proc, pc, args, local, phase, hist, threw, result, escaped, chain,
          probe>>

Calls == DOMAIN pc

InitOn(S) ==
  /\ proc = "starting"
  /\ pc = [i \in S |-> "idle"]
  /\ args = [i \in S |-> <<>>]
  /\ local = [i \in S |-> NoLocals]
  /\ phase = [i \in S |-> "NONE"]
  /\ hist = [i \in S |-> <<>>]
  /\ threw = [i \in S |-> <<>>]
  /\ result = [i \in S |-> <<>>]
  /\ escaped = [i \in S |-> FALSE]
  /\ chain = [i \in S |-> <<>>]

NoProbe == [hexStr |-> NoHex, length |-> <<>>, outcome |-> <<>>]

Init == InitOn({1}) /\ probe = NoProbe

ConcInit == InitOn(1..NumCalls) /\ probe = NoProbe

\* main(): await server.connect(transport) resolves.
Connect ==
  /\ proc = "starting"
  /\ proc' = "running"
  /\ UNCHANGED <<pc, args, local, phase, hist, threw, result, escaped, chain,
                 probe>>

\* main().catch: server.connect rejects, process.exit(1).
ConnectFails ==
  /\ proc = "starting"
  /\ proc' = "exited"
  /\ UNCHANGED <<pc, args, local, phase, hist, threw, result, escaped, chain,
                 probe>>

Begin(i, a, fedBack) ==
  /\ pc' = [pc EXCEPT ![i] = FirstCall(a.tool)]
  /\ args' = [args EXCEPT ![i] = <<a>>]
  /\ local' = [local EXCEPT ![FrameOf(i)] = NoLocals]
  /\ phase' = [phase EXCEPT ![i] = "NONE"]
  /\ hist' = [hist EXCEPT ![i] = <<>>]
  /\ threw' = [threw EXCEPT ![i] = <<>>]
  /\ result' = [result EXCEPT ![i] = <<>>]
  /\ escaped' = [escaped EXCEPT ![i] = FALSE]
  /\ chain' = [chain EXCEPT ![i] = fedBack]
  /\ UNCHANGED <<proc, probe>>

\* A request arrives: one invocation alone is given any arguments, several
\* side by side those of SmallArgs.
Invoke(i) ==
  /\ proc = "running"
  /\ pc[i] = "idle"
  /\ \E a \in (IF Cardinality(Calls) = 1 THEN AllArgs ELSE SmallArgs) :
        Begin(i, a, <<>>)

\* The client feeds the PSBT a sign_transaction returned back in, with the
\* same key and network.
InvokeAgain(i) ==
  /\ proc = "running"
  /\ pc[i] = "done"
  /\ result[i] # <<>>
  /\ result[i][1].text.psbt # <<>>
  /\ Begin(i, [args[i][1] EXCEPT !.psbtHex = result[i][1].text.psbt[1]], result[i])

\* The result of invocation i is sent and the server is ready for the next
\* request.
Respond(i) ==
  /\ pc[i] = "done"
  /\ pc' = [pc EXCEPT ![i] = "idle"]
  /\ args' = [args EXCEPT ![i] = <<>>]
  /\ phase' = [phase EXCEPT ![i] = "NONE"]
  /\ hist' = [hist EXCEPT ![i] = <<>>]
  /\ threw' = [threw EXCEPT ![i] = <<>>]
  /\ result' = [result EXCEPT ![i] = <<>>]
  /\ escaped' = [escaped EXCEPT ![i] = FALSE]
  /\ chain' = [chain EXCEPT ![i] = <<>>]
  /\ UNCHANGED <<proc, local, probe>>

\* A call of invocation i threw: the catch block returns, or the error leaves
\* the handler.
Raise(i, call, msg) ==
  /\ pc' = [pc EXCEPT ![i] = "done"]
  /\ threw' = [threw EXCEPT ![i] = <<call>>]
  /\ local' = [local EXCEPT ![FrameOf(i)] = NoLocals]
  /\ IF InTry(args[i][1].tool, call)
     THEN /\ result' = [result EXCEPT ![i] = <<ErrorResult(args[i][1], msg)>>]
          /\ UNCHANGED escaped
     ELSE /\ escaped' = [escaped EXCEPT ![i] = TRUE]
          /\ UNCHANGED result

\* A call of invocation i returned and the handler returns `r`.
Return(i, r) ==
  /\ pc' = [pc EXCEPT ![i] = "done"]
  /\ result' = [result EXCEPT ![i] = <<r>>]
  /\ local' = [local EXCEPT ![FrameOf(i)] = NoLocals]
  /\ UNCHANGED <<threw, escaped>>

Advance(i, call) ==
  /\ pc' = [pc EXCEPT ![i] = CallAfter(args[i][1].tool, call)]
  /\ UNCHANGED <<threw, escaped, result>>

Made(i, call) == hist' = [hist EXCEPT ![i] = Append(@, call)]

\* validateHex(psbtHex);
DoValidateHex(i) ==
  /\ pc[i] = "validateHex"
  /\ Made(i, "validateHex")
  /\ LET r == validateHex(args[i][1].psbtHex, <<>>)
     IN  IF r.thrown THEN Raise(i, "validateHex", r.msg)
         ELSE Advance(i, "validateHex") /\ UNCHANGED local
  /\ UNCHANGED <<proc, args, phase, chain, probe>>

\* const privateKeyBytes = btc.WIF(testnet ? btc.TEST_NETWORK : undefined)
\*                            .decode(privateKeyWif);
DoWifDecode(i) ==
  /\ pc[i] = "WIF.decode"
  /\ Made(i, "WIF.decode")
  /\ LET a == args[i][1]
         r == WIFDecode(NetworkOf(ZodTestnet(a.testnet)), a.privateKeyWif)
     IN  IF r.thrown THEN Raise(i, "WIF.decode", r.msg)
         ELSE /\ Advance(i, "WIF.decode")
              /\ local' = [local EXCEPT ![FrameOf(i)].privateKeyBytes = r.val]
  /\ UNCHANGED <<proc, args, phase, chain, probe>>

\* const tx = btc.Transaction.fromPSBT(hex.decode(psbtHex));
DoFromPSBT(i) ==
  /\ pc[i] = "fromPSBT"
  /\ Made(i, "fromPSBT")
  /\ LET r == FromPSBT(args[i][1].psbtHex)
     IN  IF r.thrown
         THEN Raise(i, "fromPSBT", r.msg) /\ UNCHANGED phase
         ELSE /\ Advance(i, "fromPSBT")
              /\ local' = [local EXCEPT ![FrameOf(i)].tx = r.val]
              /\ phase' = [phase EXCEPT ![i] = "PARSED"]
  /\ UNCHANGED <<proc, args, chain, probe>>

\* tx.sign(privateKeyBytes);
DoSign(i) ==
  /\ pc[i] = "sign"
  /\ Made(i, "sign")
  /\ local[FrameOf(i)].tx # <<>>
  /\ local[FrameOf(i)].privateKeyBytes # <<>>
  /\ LET f == local[FrameOf(i)]
         r == SignStep(f.tx[1], f.privateKeyBytes[1])
     IN  IF r.thrown
         THEN Raise(i, "sign", r.msg) /\ UNCHANGED phase
         ELSE /\ Advance(i, "sign")
              /\ local' = [local EXCEPT ![FrameOf(i)].tx = r.val]
              /\ phase' = [phase EXCEPT ![i] = "SIGNED"]
  /\ UNCHANGED <<proc, args, chain, probe>>

\* return { content: [{ ..., text: `Signed PSBT: ${hex.encode(tx.toPSBT())}` }] };
DoToPSBT(i) ==
  /\ pc[i] = "toPSBT"
  /\ Made(i, "toPSBT")
  /\ local[FrameOf(i)].tx # <<>>
  /\ Return(i, SignedResult(ToPSBTHex(local[FrameOf(i)].tx[1])))
  /\ phase' = [phase EXCEPT ![i] = "SERIALIZED"]
  /\ UNCHANGED <<proc, args, chain, probe>>

\* const publicKey = secp256k1.getPublicKey(privateKeyBytes, true);
DoGetPublicKey(i) ==
  /\ pc[i] = "getPublicKey"
  /\ Made(i, "getPublicKey")
  /\ local[FrameOf(i)].privateKeyBytes # <<>>
  /\ LET r == GetPublicKey(local[FrameOf(i)].privateKeyBytes[1])
     IN  IF r.thrown THEN Raise(i, "getPublicKey", r.msg)
         ELSE /\ Advance(i, "getPublicKey")
              /\ local' = [local EXCEPT ![FrameOf(i)].publicKey = r.val]
  /\ UNCHANGED <<proc, args, phase, chain, probe>>

\* const payment = btc.p2wpkh(publicKey, ...); const address = payment.address;
\* the error result when there is none, the address otherwise.
DoP2wpkh(i) ==
  /\ pc[i] = "p2wpkh"
  /\ Made(i, "p2wpkh")
  /\ local[FrameOf(i)].publicKey # <<>>
  /\ LET payment == P2wpkh(local[FrameOf(i)].publicKey[1],
                           NetworkOf(ZodTestnet(args[i][1].testnet)))
     IN  IF payment.address = <<>> THEN Return(i, NoAddressResult)
         ELSE Return(i, AddressResult(payment.address[1]))
  /\ UNCHANGED <<proc, args, phase, chain, probe>>

Next ==
  \/ Connect
  \/ ConnectFails
  \/ \E i \in Calls : Invoke(i)
  \/ \E i \in Calls : InvokeAgain(i)
  \/ \E i \in Calls : Respond(i)
  \/ \E i \in Calls : DoValidateHex(i)
  \/ \E i \in Calls : DoWifDecode(i)
  \/ \E i \in Calls : DoFromPSBT(i)
  \/ \E i \in Calls : DoSign(i)
  \/ \E i \in Calls : DoToPSBT(i)
  \/ \E i \in Calls : DoGetPublicKey(i)
  \/ \E i \in Calls : DoP2wpkh(i)

Spec == Init /\ [][Next]_vars

ConcSpec == ConcInit /\ [][Next]_vars

\* ------------------------------------------------------------ validateHex alone

\* The expected byte counts given as `length`: none, or 0 and up.
Lengths == {<<>>} \cup {<<n>> : n \in 0..(MaxHexLen \div 2 + 1)}

HexInit ==
  /\ InitOn({1})
  /\ probe \in {[hexStr |-> LiteralHex(t), length |-> l, outcome |-> <<>>] :
                   t \in Texts, l \in Lengths}

\* validateHex(hexStr, length) is called.
CallValidateHex ==
  /\ probe.outcome = <<>>
  /\ probe' = [probe EXCEPT !.outcome = <<validateHex(probe.hexStr, probe.length)>>]
  /\ UNCHANGED <<proc, pc, args, local, phase, hist, threw, result, escaped,
                 chain>>

HexNext == CallValidateHex

HexSpec == HexInit /\ [][HexNext]_vars

\* ------------------------------------------------------------ properties

Served(i) == pc[i] = "done"
ArgsOf(i) == args[i][1]
ResultOf(i) == result[i][1]
IsSign(i) == ArgsOf(i).tool = "sign_transaction"

\* C1: every failure inside a handler is caught there: an invocation never
\* lets an error out, it ends with a result, the result of an invocation in
\* which a call threw is an error result carrying an error text, and the
\* process exits only when the startup connection failed, before any
\* invocation was served.
C1_ErrorsCaught ==
  \A i \in Calls :
    /\ ~escaped[i]
    /\ Served(i) => result[i] # <<>>
    /\ (Served(i) /\ threw[i] # <<>>) =>
          ResultOf(i).isError /\ ResultOf(i).text.message # <<>>
    /\ proc = "exited" => pc[i] = "idle" /\ hist[i] = <<>>

\* An invocation whose tx.sign threw ended with an error result.
C1_Witness ==
  \E i \in Calls :
    Served(i) /\ threw[i] = <<"sign">> /\ result[i] # <<>> /\ ResultOf(i).isError

\* The key a WIF text decodes to under the network its invocation names.
WifAccepted(a) ==
  /\ a.privateKeyWif.checksum
  /\ a.privateKeyWif.compressed
  /\ a.privateKeyWif.version = (IF a.testnet = <<TRUE>> THEN "ef" ELSE "80")

WellFormedPsbt(a) == ~FromPSBT(a.psbtHex).thrown

\* The input maps of the container of a call's arguments.
InputsOf(a) == FromPSBT(a.psbtHex).val[1].ins

\* The inputs of the container whose spent output is the P2WPKH output of
\* the key of the WIF.
OwnInputs(a) ==
  {n \in 1..Len(InputsOf(a)) :
      SpentScripts(InputsOf(a)[n]) = {ScriptOf("wpkh", a.privateKeyWif.key)}}

\* C2: sign_transaction on a well-formed PSBT with a valid key that matches
\* none of its inputs fails because no input was signed: an error result
\* that carries no PSBT.
C2_NoMatchingInput ==
  \A i \in Calls :
    (/\ Served(i) /\ IsSign(i)
     /\ WellFormedPsbt(ArgsOf(i)) /\ WifAccepted(ArgsOf(i))
     /\ ArgsOf(i).privateKeyWif.key \in ValidScalars
     /\ OwnInputs(ArgsOf(i)) = {})
    => /\ ResultOf(i).isError
       /\ ResultOf(i).text.psbt = <<>>
       /\ ResultOf(i).text.message = <<"No inputs signed">>
       /\ threw[i] = <<"sign">>

\* A PSBT with two inputs of another key was scanned and refused.
C2_Witness ==
  \E i \in Calls :
    /\ Served(i) /\ IsSign(i)
    /\ WellFormedPsbt(ArgsOf(i)) /\ WifAccepted(ArgsOf(i))
    /\ ArgsOf(i).privateKeyWif.key = "k1"
    /\ Len(InputsOf(ArgsOf(i))) = 2
    /\ OwnInputs(ArgsOf(i)) = {}
    /\ ResultOf(i).isError

SignCalls == <<"validateHex", "WIF.decode", "fromPSBT", "sign", "toPSBT">>

\* Whether Sign has an input to sign.
Signable(a) == OwnInputs(a) # {}

\* C3: no partial success: when a call of sign_transaction failed the result
\* is an error result without any PSBT, and a "Signed PSBT" result comes
\* only after hex validation, key decoding, parsing, signing and
\* serialization all went through.
C3_NoPartialSuccess ==
  \A i \in Calls :
    (Served(i) /\ IsSign(i)) =>
      /\ threw[i] # <<>> =>
            /\ ResultOf(i).isError
            /\ ResultOf(i).text.psbt = <<>>
            /\ ResultOf(i).text.address = <<>>
      /\ ResultOf(i).text.prefix = "Signed PSBT: " =>
            /\ ~ResultOf(i).isError
            /\ threw[i] = <<>>
            /\ hist[i] = SignCalls
            /\ phase[i] = "SERIALIZED"
            /\ TextLength(ArgsOf(i).psbtHex) % 2 = 0
            /\ WellFormedPsbt(ArgsOf(i))
            /\ WifAccepted(ArgsOf(i))
            /\ Signable(ArgsOf(i))
      /\ (ResultOf(i).text.prefix # "Signed PSBT: ") => ResultOf(i).isError

\* Parsing a well-formed hex text that holds no PSBT failed.
C3_Witness ==
  \E i \in Calls :
    /\ Served(i) /\ IsSign(i)
    /\ threw[i] = <<"fromPSBT">>
    /\ ResultOf(i).isError
    /\ ResultOf(i).text.psbt = <<>>

\* C7: WIF import checks the network in both tools: a mainnet WIF with
\* testnet=true, a testnet WIF with testnet false or omitted, and a WIF whose
\* checksum fails end in an error result, with no address and nothing signed.
C7_WifNetworkChecked ==
  \A i \in Calls :
    (/\ Served(i)
     /\ \/ ArgsOf(i).privateKeyWif.version = "80" /\ ArgsOf(i).testnet = <<TRUE>>
        \/ ArgsOf(i).privateKeyWif.version = "ef"
             /\ ArgsOf(i).testnet \in {<<>>, <<FALSE>>}
        \/ ~ArgsOf(i).privateKeyWif.checksum)
    => /\ ResultOf(i).isError
       /\ ResultOf(i).text.address = <<>>
       /\ ResultOf(i).text.psbt = <<>>
       /\ phase[i] = "NONE"
       /\ "sign" \notin {hist[i][n] : n \in 1..Len(hist[i])}
       /\ "p2wpkh" \notin {hist[i][n] : n \in 1..Len(hist[i])}

\* A testnet WIF given to sign_transaction without the testnet argument,
\* beside a PSBT its key could sign, was refused at the WIF.
C7_Witness ==
  \E i \in Calls :
    /\ Served(i) /\ IsSign(i)
    /\ ArgsOf(i).privateKeyWif.version = "ef"
    /\ ArgsOf(i).privateKeyWif.checksum
    /\ ArgsOf(i).testnet = <<>>
    /\ WellFormedPsbt(ArgsOf(i))
    /\ OwnInputs(ArgsOf(i)) # {}
    /\ threw[i] = <<"WIF.decode">>
    /\ ResultOf(i).isError

\* The characters [0-9a-fA-F].
HexCharClass ==
  {"0", "1", "2", "3", "4", "5", "6", "7", "8", "9", "a", "b", "c", "d", "e",
   "f", "A", "B", "C", "D", "E", "F"}

MalformedHex(h) ==
  \/ TextLength(h) % 2 = 1
  \/ \E n \in 1..Len(h.chars) : h.chars[n] \notin HexCharClass

\* C8: a psbtHex of odd length or with a character outside [0-9a-fA-F] makes
\* validateHex fail and sign_transaction return an error result without
\* parsing or signing; on an even-length text of hex digits of either case,
\* the empty one included, validateHex does not fail.
C8_MalformedHexRejected ==
  \A i \in Calls :
    (Served(i) /\ IsSign(i)) =>
      IF MalformedHex(ArgsOf(i).psbtHex)
      THEN /\ threw[i] = <<"validateHex">>
           /\ ResultOf(i).isError
           /\ hist[i] = <<"validateHex">>
           /\ phase[i] = "NONE"
      ELSE /\ threw[i] # <<"validateHex">>
           /\ Len(hist[i]) >= 2

\* An even-length text with a character that is no hex digit was refused.
C8_Witness ==
  \E i \in Calls :
    /\ Served(i) /\ IsSign(i)
    /\ ArgsOf(i).psbtHex = LiteralHex(<<"a", "g">>)
    /\ threw[i] = <<"validateHex">>
    /\ ResultOf(i).isError

\* An invocation of sign_transaction that reached tx.sign.
ReachedSign(i) ==
  /\ Served(i) /\ IsSign(i)
  /\ WellFormedPsbt(ArgsOf(i)) /\ WifAccepted(ArgsOf(i))

Succeeded(i) == ReachedSign(i) /\ ~ResultOf(i).isError

InBody(i) == ArgsOf(i).psbtHex.body[1]
OutBody(i) == ResultOf(i).text.psbt[1].body[1]
KeyOf(i) == ArgsOf(i).privateKeyWif.key

\* The maps of the container given and of the container returned, and the
\* input maps of the latter.
InMaps(i) == SplitMaps(InBody(i))
OutMaps(i) == SplitMaps(OutBody(i))
OutInputs(i) == SubSeq(OutMaps(i), 2, 1 + Len(InputsOf(ArgsOf(i))))

\* The maps of the given container that are matched inputs: the input maps
\* whose spent output is the P2WPKH output of the key.
MatchedMaps(i) == {1 + n : n \in OwnInputs(ArgsOf(i))}

\* A sequence without the elements at the positions `drop`.
Without(seq, drop) ==
  LET keep == {n \in 1..Len(seq) : n \notin drop}
      nth(k) == CHOOSE n \in keep : Cardinality({m \in keep : m < n}) = k - 1
  IN  [k \in 1..Cardinality(keep) |-> seq[nth(k)]]

Occurrences(seq, x) == Cardinality({n \in 1..Len(seq) : seq[n] = x})

NeverFinal(ins) ==
  \A n \in 1..Len(ins) : ValuesOf(ins[n], "finalScriptWitness") = {}

C6_States ==
  \A i \in Calls :
    /\ \A c \in {"fromPSBT", "sign", "toPSBT"} : Occurrences(hist[i], c) <= 1
    /\ phase[i] = "PARSED" =>
          \/ hist[i] = SubSeq(SignCalls, 1, 3)
          \/ hist[i] = SubSeq(SignCalls, 1, 4) /\ threw[i] = <<"sign">>
    /\ phase[i] = "SIGNED" => hist[i] = SubSeq(SignCalls, 1, 4) /\ threw[i] = <<>>
    /\ phase[i] = "SERIALIZED" => hist[i] = SignCalls /\ pc[i] = "done"
    /\ local[i].tx # <<>> => NeverFinal(local[i].tx[1].ins)
    /\ (result[i] # <<>> /\ ResultOf(i).text.psbt # <<>>) => NeverFinal(OutInputs(i))

C6_Steps ==
  \A i \in Calls :
    pc[i] \notin {"idle", "done"} =>
      \/ phase'[i] = phase[i]
      \/ <<phase[i], phase'[i]>> \in
            {<<"NONE", "PARSED">>, <<"PARSED", "SIGNED">>, <<"SIGNED", "SERIALIZED">>}

\* C6: within an invocation the container goes from PARSED to SIGNED to
\* SERIALIZED and never back, parse, sign and serialize each happen once and
\* in that order, and no input is ever given a final scriptWitness.
C6_ForwardOnly == []C6_States /\ [][C6_Steps]_vars

\* A container was parsed, signed and serialized.
C6_Witness ==
  \E i \in Calls :
    phase[i] = "SERIALIZED" /\ hist[i] = SignCalls /\ ~ResultOf(i).isError

\* C9: with an expected byte count given, 0 included, validateHex fails with
\* the length error exactly when the hex text decodes to another number of
\* bytes.
C9_ExactLength ==
  (/\ probe.outcome # <<>>
   /\ probe.length # <<>>
   /\ ~MalformedHex(probe.hexStr))
  => (probe.outcome[1].msg = "Hex must be N chars long"
        <=> TextLength(probe.hexStr) \div 2 # probe.length[1])

\* What sign_transaction returns for the arguments `a` when nothing else
\* runs.
SignAlone(a) ==
  LET v == validateHex(a.psbtHex, <<>>)
      k == WIFDecode(NetworkOf(ZodTestnet(a.testnet)), a.privateKeyWif)
      t == FromPSBT(a.psbtHex)
  IN  IF v.thrown THEN {ErrorResult(a, v.msg)}
      ELSE IF k.thrown THEN {ErrorResult(a, k.msg)}
      ELSE IF t.thrown THEN {ErrorResult(a, t.msg)}
      ELSE LET s == SignStep(t.val[1], k.val[1])
           IN  IF s.thrown THEN {ErrorResult(a, s.msg)}
               ELSE {SignedResult(ToPSBTHex(s.val[1]))}

\* What generate_address returns for the arguments `a` when nothing else runs.
GenerateAlone(a) ==
  LET k == WIFDecode(NetworkOf(ZodTestnet(a.testnet)), a.privateKeyWif)
  IN  IF k.thrown THEN {ErrorResult(a, k.msg)}
      ELSE LET q == GetPublicKey(k.val[1])
           IN  IF q.thrown THEN {ErrorResult(a, q.msg)}
               ELSE {AddressResult(
                       P2wpkh(q.val[1], NetworkOf(ZodTestnet(a.testnet))).address[1])}

Alone(a) == IF a.tool = "sign_transaction" THEN SignAlone(a) ELSE GenerateAlone(a)

\* C10: invocations served side by side share nothing: each returns a result
\* it returns when run alone on its arguments, the key and the container an
\* invocation holds are those of its own arguments, and an invocation that
\* returned holds neither.
C10_Isolated ==
  \A i \in Calls :
    /\ ~escaped[i]
    /\ Served(i) =>
          /\ result[i] # <<>>
          /\ ResultOf(i) \in Alone(ArgsOf(i))
    /\ pc[i] \in {"idle", "done"} => local[i] = NoLocals
    /\ pc[i] \notin {"idle", "done"} =>
          /\ local[i].privateKeyBytes \in {<<>>, <<ArgsOf(i).privateKeyWif.key>>}
          /\ local[i].tx # <<>> =>
                /\ WellFormedPsbt(ArgsOf(i))
                /\ local[i].privateKeyBytes # <<>>
                /\ \/ local[i].tx[1] = FromPSBT(ArgsOf(i).psbtHex).val[1]
                   \/ <<local[i].tx[1]>>
                        = SignStep(FromPSBT(ArgsOf(i).psbtHex).val[1], KeyOf(i)).val

\* Two invocations of sign_transaction with different keys, started while
\* the other was running, both returned.
C10_Witness ==
  /\ NumCalls >= 2
  /\ Served(1) /\ Served(2)
  /\ IsSign(1) /\ IsSign(2)
  /\ KeyOf(1) # KeyOf(2)
  /\ ~ResultOf(1).isError /\ ~ResultOf(2).isError

====
